---- MODULE Spec2Model ----
(***************************************************************************)
(* GPU Reset Utility (cudareset.py).                                       *)
(*                                                                         *)
(* Two threads: the GUI thread (MainWindow) and one QThread (Worker).      *)
(* Worker.run walks the list `methods`, calling each reset function        *)
(* inside try/except and emitting `log` lines; the signals reach the GUI   *)
(* thread through the queued connection, modelled by the FIFO `events`.    *)
(* Every call into an external library, the OS or a subprocess is one      *)
(* step whose outcome (returns a value / raises) is chosen by the          *)
(* environment.                                                            *)
(***************************************************************************)
EXTENDS Integers, Sequences, FiniteSets, TLC

VARIABLES
    cuda,          \* module global: pycuda.driver imported (line 5-8)
    numba_cuda,    \* module global: numba.cuda imported (line 10-13)
    NvRaw,         \* module global: pynvraw.NvRaw imported (line 15-18)
    win32api,      \* module globals win32api/win32con imported (line 20-24)
    reset_button,  \* MainWindow.reset_button is enabled
    log_output,    \* MainWindow.log_output: the lines shown
    events,        \* queued signal deliveries Worker -> MainWindow
    running,       \* QThread.isRunning() of MainWindow.worker
    pc,            \* Worker position inside run()
    idx,           \* index into methods of the for loop of run()
    step,          \* position inside the reset function being executed
    handles,       \* local `handles` of reset_nvapi
    exc,           \* exception raised by func(): <<>> for none, else str(e)
    emitted,       \* history: signals emitted by the Worker in this Run
    invoked,       \* history: indices of methods whose func() was called
    returned,      \* history: indices of methods whose func() returned normally
    raised,        \* history: indices of methods whose func() raised
    calls,         \* history: external calls made by the current func()
    handled        \* history: times reset_finished ran since this Run began

vars == <<cuda, numba_cuda, NvRaw, win32api, reset_button, log_output, events,
          running, pc, idx, step, handles, exc, emitted, invoked, returned,
          raised, calls, handled>>

globals == <<cuda, numba_cuda, NvRaw, win32api>>
shell == <<reset_button, log_output>>

----------------------------------------------------------------------------
(* Bounds of the exploration. *)

\* number of signal deliveries that may wait in the GUI thread's event queue
MaxQueue == 2

----------------------------------------------------------------------------
(* Static data of the program. *)

\* Worker.run: the display names of `methods`, in list order
methods == <<"CUDA Runtime Reset", "PyCUDA Context Reset", "Numba Context Reset",
             "NVAPI GPU Reset", "Win Key Driver Reset", "DevCon GPU Toggle">>

\* reset_cuda_runtime: candidate library names, in list order
dll_names == <<"cudart64_125.dll", "cudart64_120.dll", "cudart64_110.dll">>

\* reset_devcon: the hardware id passed to devcon
gpu_id == "PCI\\\\VEN_10DE&DEV_1C8C&SUBSYS_07981028"

\* reset_pycuda: the driver calls after the import check, in order
pycuda_calls == <<"cuda.init", "cuda.Device(0)", "dev.make_context", "ctx.pop", "ctx.detach">>

\* reset_numba: the calls after the import check, in order
numba_calls == <<"numba_cuda.select_device(0)", "numba_cuda.current_context", "reset">>

\* variant of winkey_calls: the keys are released in the order they were pressed
winkey_calls_same_order ==
    << <<"VK_LWIN", "0">>, <<"VK_CONTROL", "0">>, <<"VK_SHIFT", "0">>, <<"B", "0">>,
       <<"VK_LWIN", "KEYEVENTF_KEYUP">>, <<"VK_CONTROL", "KEYEVENTF_KEYUP">>,
       <<"VK_SHIFT", "KEYEVENTF_KEYUP">>, <<"B", "KEYEVENTF_KEYUP">> >>

\* reset_winkey: the keybd_event calls (virtual key, flags), in order
winkey_calls == << <<"VK_LWIN", "0">>, <<"VK_CONTROL", "0">>, <<"VK_SHIFT", "0">>, <<"B", "0">>,
                   <<"B", "KEYEVENTF_KEYUP">>, <<"VK_SHIFT", "KEYEVENTF_KEYUP">>,
                   <<"VK_CONTROL", "KEYEVENTF_KEYUP">>, <<"VK_LWIN", "KEYEVENTF_KEYUP">> >>

\* reset_devcon: the devcon sub-commands, in order
devcon_calls == <<"disable", "enable">>

----------------------------------------------------------------------------
(* What the environment may answer. *)

\* return codes of cudaDeviceReset / status of NvAPI_GPU_Reset / exit status
Codes == {0, 1}

\* str() of an integer, as used by the f-strings
Str(n) == CASE n = 0 -> "0" [] n = 1 -> "1" [] n = 2 -> "2" [] OTHER -> "?"

\* NvAPI_EnumPhysicalGPUs results: none, one or two GPU handles
HandleLists == {<<>>, <<"gpu0">>, <<"gpu0", "gpu1">>}

\* str(e) of an exception raised by an external library or the OS
LibError == <<"external error">>

\* str(e) of subprocess.CalledProcessError (check=True, non-zero exit status)
CalledProcessError(cmd, code) ==
    <<"Command ", "devcon ", cmd, " returned non-zero exit status ", Str(code)>>

\* str(e) of FileNotFoundError: the tool could not be spawned
FileNotFoundError == <<"devcon: file not found">>

----------------------------------------------------------------------------
(* The text of the notifications, as sequences of the f-string parts. *)

StartingMsg(name) == <<"Starting ", name, "...">>
SucceededMsg(name) == <<name, " succeeded.">>
FailedMsg(name, e) == <<name, " failed: ">> \o e
CudaRetMsg(ret, dll) == <<"cudaDeviceReset returned ", Str(ret), " using ", dll>>
AllAttemptedMsg == <<"All methods attempted.">>
ResetFinishedMsg == <<"Reset process finished.">>

\* a queued delivery of Worker.log(message) to MainWindow.log
LogEvent(m) == <<"log", m>>
\* a queued delivery of Worker.finished() to MainWindow.reset_finished
FinishedEvent == <<"finished">>

\* self.log.emit(message)
EmitLog(m) ==
    /\ Len(events) < MaxQueue
    /\ events' = Append(events, LogEvent(m))
    /\ emitted' = Append(emitted, LogEvent(m))

----------------------------------------------------------------------------
Init ==
    /\ cuda \in BOOLEAN
    /\ numba_cuda \in BOOLEAN
    /\ NvRaw \in BOOLEAN
    /\ win32api \in BOOLEAN
    /\ reset_button = TRUE
    /\ log_output = <<>>
    /\ events = <<>>
    /\ running = FALSE
    /\ pc = "idle"
    /\ idx = 1
    /\ step = 1
    /\ handles = <<>>
    /\ exc = <<>>
    /\ emitted = <<>>
    /\ invoked = <<>>
    /\ returned = {}
    /\ raised = {}
    /\ calls = <<>>
    /\ handled = 0

----------------------------------------------------------------------------
(* Worker.run: the loop over `methods` (lines 39-47). *)

\* line 42 completed: func() returned normally
Return ==
    /\ pc' = "outcome"
    /\ exc' = <<>>
    /\ returned' = returned \cup {idx}
    /\ step' = 1
    /\ UNCHANGED raised

\* line 44: func() raised an Exception whose str() is e
Raise(e) ==
    /\ pc' = "outcome"
    /\ exc' = e
    /\ raised' = raised \cup {idx}
    /\ step' = 1
    /\ UNCHANGED returned

\* an external call fn(arg) made by the current func(), and how it ended
Call(fn, arg, res) == calls' = Append(calls, [fn |-> fn, arg |-> arg, res |-> res])

\* line 40: self.log.emit(f"Starting {name}...")
run_starting ==
    /\ pc = "starting"
    /\ EmitLog(StartingMsg(methods[idx]))
    /\ pc' = "call"
    /\ UNCHANGED <<globals, shell, running, idx, step, handles, exc, invoked,
                   returned, raised, calls, handled>>

\* line 42: func() is entered
run_call ==
    /\ pc = "call"
    /\ pc' = "func"
    /\ step' = 1
    /\ invoked' = Append(invoked, idx)
    /\ calls' = <<>>
    /\ handles' = <<>>
    /\ UNCHANGED <<globals, shell, events, running, idx, exc, emitted,
                   returned, raised, handled>>

\* variant of run_outcome_msg: the except clause reports success as well
run_outcome_msg_always_ok(name, e) == SucceededMsg(name)

\* lines 43 and 45: the notification that follows func()
run_outcome_msg(name, e) ==
    IF e = <<>> THEN SucceededMsg(name) ELSE FailedMsg(name, e)

\* variant of run_next: the loop advances by two entries
run_next_skip(i, e) ==
    IF i + 1 < Len(methods) THEN <<"starting", i + 2>> ELSE <<"summary", i>>

\* variant of run_next: an exception leaves the loop
run_next_abort(i, e) ==
    IF e = <<>> /\ i < Len(methods) THEN <<"starting", i + 1>> ELSE <<"summary", i>>

\* variant of run_next: the loop stops one entry short of the end of the list
run_next_short(i, e) ==
    IF i < Len(methods) - 1 THEN <<"starting", i + 1>> ELSE <<"summary", i>>

\* lines 39, 44 and 46: where the loop goes after methods[i] ended with e
\* (the except clause swallows e, so the next iteration does not depend on it)
run_next(i, e) ==
    IF i < Len(methods) THEN <<"starting", i + 1>> ELSE <<"summary", i>>

\* lines 43-45: emit the outcome, then the next iteration
run_outcome ==
    /\ pc = "outcome"
    /\ EmitLog(run_outcome_msg(methods[idx], exc))
    /\ pc' = run_next(idx, exc)[1]
    /\ idx' = run_next(idx, exc)[2]
    /\ exc' = <<>>
    /\ UNCHANGED <<globals, shell, running, step, handles, invoked,
                   returned, raised, calls, handled>>

\* line 46: self.log.emit("All methods attempted.")
run_summary ==
    /\ pc = "summary"
    /\ EmitLog(AllAttemptedMsg)
    /\ pc' = "finish"
    /\ UNCHANGED <<globals, shell, running, idx, step, handles, exc, invoked,
                   returned, raised, calls, handled>>

\* variant of finished_emit: the signal is emitted twice
finished_emit_twice == <<FinishedEvent, FinishedEvent>>

\* variant of finished_emit: the signal is not emitted
finished_emit_none == <<>>

\* line 47: the deliveries queued by self.finished.emit()
finished_emit == <<FinishedEvent>>

\* line 47: self.finished.emit()
run_finished ==
    /\ pc = "finish"
    /\ Len(events) < MaxQueue
    /\ events' = events \o finished_emit
    /\ emitted' = emitted \o finished_emit
    /\ pc' = "return"
    /\ UNCHANGED <<globals, shell, running, idx, step, handles, exc, invoked,
                   returned, raised, calls, handled>>

\* run() returns and the thread ends: isRunning() becomes False
run_return ==
    /\ pc = "return"
    /\ pc' = "idle"
    /\ running' = FALSE
    /\ UNCHANGED <<globals, shell, events, idx, step, handles, exc, emitted,
                   invoked, returned, raised, calls, handled>>

----------------------------------------------------------------------------
(* The six reset functions (lines 49-102). *)

\* what one iteration of the loop of reset_cuda_runtime may meet: CDLL(dll)
\* raises, cudaDeviceReset() raises, or cudaDeviceReset() returns a code
CudaOutcomes ==
    {[load |-> FALSE, raises |-> FALSE, ret |-> 0], [load |-> TRUE, raises |-> TRUE, ret |-> 0]}
    \cup {[load |-> TRUE, raises |-> FALSE, ret |-> c] : c \in Codes}

\* variant of cuda_success: any return code counts as success
cuda_success_any(ret) == TRUE

\* line 55: if ret == 0
cuda_success(ret) == ret = 0

\* variant of cuda_continue: the search ends with the first library that loads
cuda_continue_until_loaded(d, loaded) == ~loaded /\ d < Len(dll_names)

\* lines 51 and 55-59: after candidate d did not yield 0 (whether it loaded
\* or not), the loop goes on while candidates remain
cuda_continue(d, loaded) == d < Len(dll_names)

\* lines 49-60: one iteration of `for dll in dll_names`, or the final raise
reset_cuda_runtime ==
    /\ pc = "func" /\ idx = 1
    /\ \E o \in CudaOutcomes :
         LET dll == dll_names[step]
             loadCall == [fn |-> "CDLL", arg |-> <<dll>>,
                          res |-> IF o.load THEN "ok" ELSE "raised"]
             resetCall == [fn |-> "cudaDeviceReset", arg |-> <<dll>>,
                           res |-> IF o.raises THEN "raised" ELSE Str(o.ret)]
         IN  /\ calls' = calls \o (IF o.load THEN <<loadCall, resetCall>> ELSE <<loadCall>>)
             /\ IF o.load /\ ~o.raises /\ cuda_success(o.ret)
                  THEN /\ EmitLog(CudaRetMsg(o.ret, dll))
                       /\ Return
                  ELSE /\ UNCHANGED <<events, emitted>>
                       /\ IF cuda_continue(step, o.load)
                            THEN /\ step' = step + 1
                                 /\ UNCHANGED <<pc, exc, returned, raised, handles>>
                            ELSE Raise(<<"cudaDeviceReset failed on all tried DLLs">>)
    /\ UNCHANGED <<globals, shell, running, idx, handles, invoked, handled>>

\* variant of GatedCalls: the import check is missing
GatedCalls_unchecked(i, present, missing, fn, seq) ==
    /\ pc = "func" /\ idx = i
    /\ \E ok \in BOOLEAN :
         /\ Call(fn, seq[step], IF ok THEN "ok" ELSE "raised")
         /\ IF ~ok THEN Raise(LibError)
            ELSE IF step = Len(seq) THEN Return
            ELSE /\ step' = step + 1
                 /\ UNCHANGED <<pc, exc, returned, raised>>
    /\ UNCHANGED <<globals, shell, events, running, idx, handles, emitted, invoked,
                   handled>>

\* a function that checks its optional import and then makes the external
\* calls of `seq` in order, each of which may raise (lines 62-69, 71-75, 90-97)
GatedCalls(i, present, missing, fn, seq) ==
    /\ pc = "func" /\ idx = i
    /\ IF ~present
         THEN /\ Raise(missing)
              /\ UNCHANGED calls
         ELSE \E ok \in BOOLEAN :
                /\ Call(fn, seq[step], IF ok THEN "ok" ELSE "raised")
                /\ IF ~ok THEN Raise(LibError)
                   ELSE IF step = Len(seq) THEN Return
                   ELSE /\ step' = step + 1
                        /\ UNCHANGED <<pc, exc, returned, raised>>
    /\ UNCHANGED <<globals, shell, events, running, idx, handles, emitted, invoked,
                   handled>>

\* lines 62-69
reset_pycuda ==
    GatedCalls(2, cuda, <<"PyCUDA not installed">>, "pycuda",
               [k \in 1..Len(pycuda_calls) |-> <<pycuda_calls[k]>>])

\* lines 71-75
reset_numba ==
    GatedCalls(3, numba_cuda, <<"Numba CUDA not installed">>, "numba",
               [k \in 1..Len(numba_calls) |-> <<numba_calls[k]>>])

\* lines 90-97
reset_winkey ==
    GatedCalls(5, win32api, <<"pywin32 not installed">>, "keybd_event", winkey_calls)

\* variant of nvapi_target: the last enumerated handle is reset
nvapi_target_last(h) == h[Len(h)]

\* line 84: the handle NvAPI_GPU_Reset is called on
nvapi_target(h) == h[1]

\* lines 85-86: the status that makes reset_nvapi raise
nvapi_status_fails(status) == status # 0

\* lines 77-88
reset_nvapi ==
    /\ pc = "func" /\ idx = 4
    /\ IF ~NvRaw
         THEN /\ Raise(<<"pynvraw not installed">>)
              /\ UNCHANGED <<calls, handles>>
         ELSE \/ /\ step \in {1, 2}      \* nv = NvRaw(); nv.NvAPI_Initialize()
                 /\ \E ok \in BOOLEAN :
                      /\ Call(IF step = 1 THEN "NvRaw" ELSE "NvAPI_Initialize", <<>>,
                              IF ok THEN "ok" ELSE "raised")
                      /\ IF ok THEN /\ step' = step + 1
                                    /\ UNCHANGED <<pc, exc, returned, raised>>
                         ELSE Raise(LibError)
                 /\ UNCHANGED handles
              \/ /\ step = 3             \* handles = nv.NvAPI_EnumPhysicalGPUs()
                 /\ \/ /\ Call("NvAPI_EnumPhysicalGPUs", <<>>, "raised")
                       /\ Raise(LibError)
                       /\ UNCHANGED handles
                    \/ \E h \in HandleLists :
                         /\ Call("NvAPI_EnumPhysicalGPUs", <<>>, Str(Len(h)))
                         /\ handles' = h
                         /\ IF h # <<>>
                              THEN /\ step' = 4
                                   /\ UNCHANGED <<pc, exc, returned, raised>>
                              ELSE Raise(<<"No GPUs found">>)
              \/ /\ step = 4             \* status = nv.NvAPI_GPU_Reset(handles[0])
                 /\ UNCHANGED handles
                 /\ \/ /\ Call("NvAPI_GPU_Reset", <<nvapi_target(handles)>>, "raised")
                       /\ Raise(LibError)
                    \/ \E status \in Codes :
                         /\ Call("NvAPI_GPU_Reset", <<nvapi_target(handles)>>, Str(status))
                         /\ IF nvapi_status_fails(status)
                              THEN Raise(<<"NvAPI_GPU_Reset returned status ", Str(status)>>)
                              ELSE Return
    /\ UNCHANGED <<globals, shell, events, running, idx, emitted, invoked, handled>>

\* variant of check_raises: the exit status is ignored (check=False)
check_raises_never(code) == FALSE

\* subprocess.run(..., check=True): the exit status that raises CalledProcessError
check_raises(code) == code # 0

\* variant of devcon_argv: enable is given another hardware id
devcon_argv_other(cmd) ==
    <<"devcon", cmd, IF cmd = "enable" THEN "PCI\\VEN_10DE" ELSE gpu_id>>

\* lines 101-102: the argument list of the subprocess
devcon_argv(cmd) == <<"devcon", cmd, gpu_id>>

\* lines 99-102
reset_devcon ==
    /\ pc = "func" /\ idx = 6
    /\ LET cmd == devcon_calls[step]
       IN  \/ /\ Call("subprocess.run", devcon_argv(cmd), "not spawned")
              /\ Raise(FileNotFoundError)
           \/ \E code \in Codes :
                /\ Call("subprocess.run", devcon_argv(cmd), Str(code))
                /\ IF check_raises(code) THEN Raise(CalledProcessError(cmd, code))
                   ELSE IF step = Len(devcon_calls) THEN Return
                   ELSE /\ step' = step + 1
                        /\ UNCHANGED <<pc, exc, returned, raised>>
    /\ UNCHANGED <<globals, shell, events, running, idx, handles, emitted, invoked,
                   handled>>

----------------------------------------------------------------------------
(* MainWindow: the slots, run on the GUI thread (lines 139-149). *)

\* variant of start_reset_log: the lines of the previous Run are kept
start_reset_log_kept == log_output

\* line 141: log_output.clear(), the content of the log view after a click
start_reset_log == <<>>

\* variant of start_reset_enabled: the button is left enabled
start_reset_enabled_kept == TRUE

\* line 140: the state given to the button while a Run is in progress
start_reset_enabled == FALSE

\* lines 139-142: the button is clicked.  QThread.start() does nothing when
\* the thread is still running.
start_reset ==
    /\ reset_button
    /\ reset_button' = start_reset_enabled
    /\ log_output' = start_reset_log
    /\ IF running
         THEN UNCHANGED <<running, pc, idx, step, handles, exc, emitted, invoked,
                          returned, raised, calls, handled>>
         ELSE /\ running' = TRUE
              /\ pc' = "starting"
              /\ idx' = 1
              /\ step' = 1
              /\ handles' = <<>>
              /\ exc' = <<>>
              /\ emitted' = <<>>
              /\ invoked' = <<>>
              /\ returned' = {}
              /\ raised' = {}
              /\ calls' = <<>>
              /\ handled' = 0
    /\ UNCHANGED <<globals, events>>

\* lines 144-145: a queued log signal is delivered
log ==
    /\ events # <<>>
    /\ Head(events)[1] = "log"
    /\ log_output' = Append(log_output, Head(events)[2])
    /\ events' = Tail(events)
    /\ UNCHANGED <<globals, reset_button, running, pc, idx, step, handles, exc,
                   emitted, invoked, returned, raised, calls, handled>>

\* lines 147-149: a queued finished signal is delivered
reset_finished ==
    /\ events # <<>>
    /\ Head(events) = FinishedEvent
    /\ reset_button' = TRUE
    /\ log_output' = Append(log_output, ResetFinishedMsg)
    /\ events' = Tail(events)
    /\ handled' = handled + 1
    /\ UNCHANGED <<globals, running, pc, idx, step, handles, exc,
                   emitted, invoked, returned, raised, calls>>

----------------------------------------------------------------------------
Next ==
    \/ start_reset
    \/ log
    \/ reset_finished
    \/ run_starting
    \/ run_call
    \/ reset_cuda_runtime
    \/ reset_pycuda
    \/ reset_numba
    \/ reset_nvapi
    \/ reset_winkey
    \/ reset_devcon
    \/ run_outcome
    \/ run_summary
    \/ run_finished
    \/ run_return

Spec == Init /\ [][Next]_vars

----------------------------------------------------------------------------
(* Vocabulary of the properties. *)

Range(s) == {s[k] : k \in DOMAIN s}
Count(s, x) == Cardinality({k \in DOMAIN s : s[k] = x})
Positions(s, x) == {k \in DOMAIN s : s[k] = x}

IsStarting(ev) == ev[1] = "log" /\ ev[2][1] = "Starting "
IsOutcome(ev) ==
    ev[1] = "log" /\ Len(ev[2]) >= 2 /\ ev[2][2] \in {" succeeded.", " failed: "}
IsOutcomeOf(ev, i) == IsOutcome(ev) /\ ev[2][1] = methods[i]
IsSucceeded(ev, i) == ev = LogEvent(SucceededMsg(methods[i]))
IsFailed(ev, i) == IsOutcomeOf(ev, i) /\ ev[2][2] = " failed: "

\* the "Starting" and outcome notifications of the current Run, in emission order
Notes == SelectSeq(emitted, LAMBDA ev : IsStarting(ev) \/ IsOutcome(ev))

\* the operations entered and not yet left
InProgress == Range(invoked) \ (returned \cup raised)

\* the summary notification of the current Run has been emitted
SummaryEmitted == LogEvent(AllAttemptedMsg) \in Range(emitted)

\* a Run was started: the thread is in run(), or it ended after emitting
RunExists == pc # "idle" \/ emitted # <<>>

\* run() is past line 46 / past line 47 of the current Run
PastSummary == RunExists /\ pc \in {"finish", "return", "idle"}
PastFinished == RunExists /\ pc \in {"return", "idle"}

\* run() is past the outcome notification of methods[i]
PastOutcome(i) == RunExists /\ (idx > i \/ pc \in {"summary", "finish", "return", "idle"})

----------------------------------------------------------------------------
(* C1: in every Run the six strategies are started in the order of         *)
(* `methods` and strictly one after the other: the notifications alternate *)
(* Starting(1), outcome(1), Starting(2), outcome(2), ..., so the Starting  *)
(* of strategy i+1 comes only after the outcome of strategy i, whatever    *)
(* the outcomes are, and at most one operation is in progress at a time.   *)
C1_FixedOrderSequential ==
    /\ \A notes \in {Notes} :
         /\ Len(notes) <= 2 * Len(methods)
         /\ \A k \in DOMAIN notes :
              IF k % 2 = 1
                THEN notes[k] = LogEvent(StartingMsg(methods[(k + 1) \div 2]))
                ELSE IsOutcomeOf(notes[k], k \div 2)
         /\ \A k \in DOMAIN invoked : k > 1 => Len(notes) >= 2 * (k - 1)
    /\ \A k \in DOMAIN invoked : invoked[k] = k
    /\ Cardinality(InProgress) <= 1
    /\ \A k \in DOMAIN invoked : k > 1 => (k - 1) \in returned \cup raised
    /\ pc = "func" <=> InProgress # {}

\* C1 witness: a Run that went through all six strategies with mixed outcomes
C1_Witness ==
    /\ PastSummary
    /\ Len(Notes) = 2 * Len(methods)
    /\ 1 \in raised /\ 2 \in returned /\ 4 \in raised /\ 5 \in returned

----------------------------------------------------------------------------
(* C2: a failure never stops the list: every strategy is attempted exactly *)
(* once per Run, in list order, without retry or skip, so that when the    *)
(* summary is emitted the number attempted equals the number registered,   *)
(* whatever kind of failure occurred.                                      *)
C2_AllAttemptedOnce ==
    /\ Len(invoked) <= Len(methods)
    /\ \A i \in 1..Len(methods) : Count(invoked, i) <= 1
    /\ \A i \in raised : i < Len(methods) /\ PastOutcome(i) /\ pc # "starting"
                            => Count(emitted, LogEvent(StartingMsg(methods[i + 1]))) = 1
    /\ SummaryEmitted =>
         /\ Len(invoked) = Len(methods)
         /\ \A i \in 1..Len(methods) : Count(invoked, i) = 1
         /\ returned \cup raised = 1..Len(methods)

\* C2 witness: the summary is reached although strategies failed in each way:
\* dependency absent, call raised, subprocess exited non-zero
C2_Witness ==
    /\ SummaryEmitted
    /\ LogEvent(FailedMsg(methods[2], <<"PyCUDA not installed">>)) \in Range(emitted)
    /\ LogEvent(FailedMsg(methods[4], LibError)) \in Range(emitted)
    /\ LogEvent(FailedMsg(methods[6], CalledProcessError("disable", 1))) \in Range(emitted)

----------------------------------------------------------------------------
(* C3: "All methods attempted." is emitted exactly once per Run, directly  *)
(* after the outcome notification of the last strategy (DevCon), whatever  *)
(* the outcomes of the strategies.                                         *)
C3_SummaryOnceAfterLast ==
    LET at == Positions(emitted, LogEvent(AllAttemptedMsg))
    IN  /\ Cardinality(at) <= 1
        /\ \A k \in at :
             /\ k > 1
             /\ IsOutcomeOf(emitted[k - 1], Len(methods))
             /\ Len(Notes) = 2 * Len(methods)
             /\ \A j \in DOMAIN emitted :
                  IsStarting(emitted[j]) \/ IsOutcome(emitted[j]) => j < k
        /\ PastSummary => Cardinality(at) = 1

\* C3 witness: a finished Run whose last strategy failed
C3_Witness ==
    /\ PastSummary
    /\ SummaryEmitted
    /\ Len(methods) \in raised

----------------------------------------------------------------------------
(* C4: for each strategy the "Starting" notification precedes the call of  *)
(* its operation and is followed by exactly one outcome notification with  *)
(* the same name: "succeeded" iff the operation returned normally,         *)
(* "failed: cause" iff it raised; never both, never neither.               *)
C4_OneOutcomePerStart ==
    \A notes \in {Notes} :
      \* every notification carries the name of the strategy of its place, so
      \* each name has one Starting (place 2i-1) and one outcome (place 2i)
      /\ \A k \in DOMAIN notes :
           LET i == (k + 1) \div 2
           IN  /\ i <= Len(methods)
               /\ IF k % 2 = 1
                    THEN notes[k] = LogEvent(StartingMsg(methods[i]))
                    ELSE \/ IsSucceeded(notes[k], i) /\ i \in returned /\ i \notin raised
                         \/ IsFailed(notes[k], i) /\ i \in raised /\ i \notin returned
      /\ Len(notes) >= 2 * Len(invoked) - 1
      /\ \A i \in returned \cup raised :
           /\ Len(invoked) >= i
           /\ PastOutcome(i) => Len(notes) >= 2 * i

\* C4 witness: one strategy reported as succeeded and another as failed
C4_Witness ==
    /\ PastOutcome(5)
    /\ 2 \in returned /\ 5 \in raised
    /\ \E k \in DOMAIN emitted : IsSucceeded(emitted[k], 2)
    /\ \E k \in DOMAIN emitted : IsFailed(emitted[k], 5)

----------------------------------------------------------------------------
----------------------------------------------------------------------------
(* C6: Runs never overlap: the button is disabled from start_reset until   *)
(* reset_finished has handled the completion signal, so whenever a click   *)
(* is possible no Run is executing and no delivery of a Run is pending,    *)
(* and the Worker is never started while it executes a Run.                *)
RunInProgress == pc \notin {"idle", "return"} \/ events # <<>>

----------------------------------------------------------------------------
(* C7: reset_cuda_runtime tries the candidates in the order of dll_names   *)
(* and stops at the first one whose cudaDeviceReset returns 0: when        *)
(* candidate k succeeds, the line "cudaDeviceReset returned 0 using k" is  *)
(* the only such line, and no candidate after k is loaded or invoked.      *)
CudaLoads == SelectSeq(calls, LAMBDA c : c.fn = "CDLL")

C7_CudaFirstSuccessStops ==
    /\ Len(invoked) = 1 =>
         /\ Len(CudaLoads) <= Len(dll_names)
         /\ \A j \in DOMAIN CudaLoads : CudaLoads[j].arg = <<dll_names[j]>>
         /\ \A k \in DOMAIN calls :
              /\ calls[k].fn = "cudaDeviceReset" =>
                   /\ k > 1
                   /\ calls[k - 1] = [fn |-> "CDLL", arg |-> calls[k].arg, res |-> "ok"]
              /\ calls[k].res = "0" => k = Len(calls) /\ 1 \in returned
         /\ 1 \in returned =>
              LET last == calls[Len(calls)]
              IN  /\ last.fn = "cudaDeviceReset"
                  /\ last.res = "0"
                  /\ last.arg = <<dll_names[Len(CudaLoads)]>>
                  /\ \A d \in DOMAIN dll_names :
                       Count(emitted, LogEvent(CudaRetMsg(0, dll_names[d])))
                         = (IF d = Len(CudaLoads) THEN 1 ELSE 0)
    /\ \A d \in DOMAIN dll_names, c \in Codes \ {0} :
         Count(emitted, LogEvent(CudaRetMsg(c, dll_names[d]))) = 0
    /\ PastOutcome(1) /\ 1 \in returned =>
         /\ \E d \in DOMAIN dll_names : LogEvent(CudaRetMsg(0, dll_names[d])) \in Range(emitted)
         /\ LogEvent(SucceededMsg(methods[1])) \in Range(emitted)

\* C7 witness: the first candidate loaded and returned non-zero, the second
\* returned 0 and the function returned without touching the third
C7_Witness ==
    /\ pc = "outcome" /\ idx = 1
    /\ 1 \in returned
    /\ Len(calls) = 4
    /\ calls[2].res = "1"
    /\ calls[4] = [fn |-> "cudaDeviceReset", arg |-> <<dll_names[2]>>, res |-> "0"]

----------------------------------------------------------------------------
(* C8: reset_nvapi fails with "No GPUs found", without any reset call,     *)
(* when the enumeration is empty; otherwise it issues exactly one reset    *)
(* call, on the first handle, and fails with the status message iff that   *)
(* call returned a non-zero status.                                        *)
NvResets == SelectSeq(calls, LAMBDA c : c.fn = "NvAPI_GPU_Reset")
NvEnums == SelectSeq(calls, LAMBDA c : c.fn = "NvAPI_EnumPhysicalGPUs")

C8_NvapiFirstHandleOnly ==
    Len(invoked) = 4 =>
      /\ Len(NvResets) <= 1
      /\ Len(NvEnums) <= 1
      /\ \A k \in DOMAIN NvResets :
           /\ handles # <<>>
           /\ NvResets[k].arg = <<Head(handles)>>
      /\ pc = "outcome" /\ idx = 4 =>
           LET empty == NvEnums # <<>> /\ NvEnums[1].res = "0"
               found == NvEnums # <<>> /\ NvEnums[1].res \notin {"0", "raised"}
           IN  /\ empty <=> exc = <<"No GPUs found">>
               /\ empty => NvResets = <<>> /\ 4 \in raised /\ handles = <<>>
               /\ found <=> Len(NvResets) = 1
               /\ found =>
                    LET r == NvResets[1].res
                    IN  /\ r \notin {"0", "raised"}
                          <=> exc = <<"NvAPI_GPU_Reset returned status ", r>>
                        /\ r = "0" <=> 4 \in returned
               /\ (exc # <<>> /\ exc[1] = "NvAPI_GPU_Reset returned status ") => found

\* C8 witness: two GPUs were enumerated, the reset of the first returned 1
C8_Witness ==
    /\ pc = "outcome" /\ idx = 4
    /\ handles = <<"gpu0", "gpu1">>
    /\ NvResets = << [fn |-> "NvAPI_GPU_Reset", arg |-> <<"gpu0">>, res |-> "1"] >>
    /\ exc = <<"NvAPI_GPU_Reset returned status ", "1">>

----------------------------------------------------------------------------
(* C9: reset_devcon runs disable before enable and does not retry: a       *)
(* non-zero exit of either step makes the strategy fail; after a non-zero  *)
(* exit of disable, enable is never invoked; after a non-zero exit of      *)
(* enable, disable is not invoked again.                                   *)
DevconDone == Len(invoked) = Len(methods) /\ Len(methods) \in returned \cup raised

C9_DevconDisableThenEnable ==
    Len(invoked) = Len(methods) =>
      /\ Len(calls) <= Len(devcon_calls)
      /\ \A k \in DOMAIN calls : calls[k].arg[2] = devcon_calls[k]
      /\ \A k \in DOMAIN calls : k < Len(calls) => calls[k].res = "0"
      /\ \A k \in DOMAIN calls :
           calls[k].res \notin {"0", "not spawned"} => Len(methods) \in raised
      /\ DevconDone =>
           /\ calls # <<>>
           /\ calls[1].res # "0" => Len(calls) = 1
           /\ Len(methods) \in returned => Len(calls) = 2

\* C9 witness: disable exited with status 1 and the function raised at once
C9_Witness ==
    /\ pc = "outcome" /\ idx = Len(methods)
    /\ Len(calls) = 1
    /\ calls[1].arg[2] = "disable" /\ calls[1].res = "1"
    /\ Len(methods) \in raised

----------------------------------------------------------------------------
(* C10 as stated: in every Run devcon is invoked twice, disable then       *)
(* enable, with the same fixed hardware id, and the exit statuses alone    *)
(* decide the outcome of the strategy.                                     *)
C10_TwicePerRun ==
    DevconDone =>
      /\ Len(calls) = 2
      /\ \A k \in DOMAIN calls : calls[k].arg = <<"devcon", devcon_calls[k], gpu_id>>
      /\ \A k \in DOMAIN calls : calls[k].res \in {Str(c) : c \in Codes}
      /\ Len(methods) \in returned <=> \A k \in DOMAIN calls : calls[k].res = "0"

(* C10 amended: devcon is invoked at most twice per Run, disable first     *)
(* and enable only after disable exited with status 0, each time with the  *)
(* same fixed hardware id; the strategy succeeds iff both invocations ran  *)
(* and exited with status 0, and fails when the tool exits non-zero or     *)
(* cannot be started.                                                      *)
C10_AtMostTwicePerRun ==
    /\ \A k \in DOMAIN calls :
         calls[k].fn = "subprocess.run" =>
           /\ Len(invoked) = Len(methods)
           /\ calls[k].arg = <<"devcon", devcon_calls[k], gpu_id>>
    /\ DevconDone =>
         /\ Len(calls) \in {1, 2}
         /\ Len(calls) = 2 <=> calls[1].res = "0"
         /\ Len(methods) \in returned
              <=> Len(calls) = 2 /\ \A k \in DOMAIN calls : calls[k].res = "0"
         /\ Len(methods) \in raised <=> calls[Len(calls)].res # "0"

\* C10 witness: the tool could not be started: one invocation, no exit status
C10_Witness ==
    /\ DevconDone
    /\ PastSummary
    /\ Len(calls) = 1
    /\ calls[1] = [fn |-> "subprocess.run", arg |-> <<"devcon", "disable", gpu_id>>,
                   res |-> "not spawned"]
    /\ Len(methods) \in raised

----------------------------------------------------------------------------
(* C11: in the worst case (no optional dependency imported, every CDLL     *)
(* load raising, devcon not on the path) the Run emits, in this order, a   *)
(* Starting and a failure notification for each of the six strategies and  *)
(* no success notification, then the summary, then the completion signal:  *)
(* every exception stays inside run().                                     *)
IsPrefix(a, b) == Len(a) <= Len(b) /\ SubSeq(b, 1, Len(a)) = a

WorstCaseCauses ==
    << <<"cudaDeviceReset failed on all tried DLLs">>, <<"PyCUDA not installed">>,
       <<"Numba CUDA not installed">>, <<"pynvraw not installed">>,
       <<"pywin32 not installed">>, FileNotFoundError >>

WorstCaseEmitted ==
    [k \in 1..(2 * Len(methods)) |->
       IF k % 2 = 1
         THEN LogEvent(StartingMsg(methods[(k + 1) \div 2]))
         ELSE LogEvent(FailedMsg(methods[k \div 2], WorstCaseCauses[k \div 2]))]
    \o <<LogEvent(AllAttemptedMsg), FinishedEvent>>

AllAbsent == ~cuda /\ ~numba_cuda /\ ~NvRaw /\ ~win32api

C11_WorstCaseSixFailures ==
    /\ (pc = "outcome" /\ idx = 1 /\ \A k \in DOMAIN calls : calls[k].res = "raised") =>
         /\ Len(calls) = Len(dll_names)
         /\ 1 \in raised
         /\ exc = WorstCaseCauses[1]
    /\ ( /\ AllAbsent
         /\ 1 \notin returned
         /\ (Len(invoked) = Len(methods) /\ calls # <<>>) => calls[1].res = "not spawned" ) =>
         /\ IsPrefix(emitted, WorstCaseEmitted)
         /\ returned = {}
         /\ PastFinished => /\ emitted = WorstCaseEmitted
                            /\ raised = 1..Len(methods)

\* C11 witness: the worst-case Run is over, all six failed, the completion
\* signal has been handled
C11_Witness ==
    /\ AllAbsent
    /\ emitted = WorstCaseEmitted
    /\ calls # <<>> /\ calls[1].res = "not spawned"
    /\ raised = 1..Len(methods)
    /\ events = <<>>
    /\ reset_button

----------------------------------------------------------------------------
(* C12: each of the four functions gated by an optional import (PyCUDA,    *)
(* Numba, NVAPI, Win Key) raises "... not installed" at once when its      *)
(* import failed at process start, without making any external call; and   *)
(* the availability of the imports never changes after process start.      *)
Absent(i) ==
    CASE i = 2 -> ~cuda [] i = 3 -> ~numba_cuda [] i = 4 -> ~NvRaw [] i = 5 -> ~win32api

NotInstalled(i) ==
    CASE i = 2 -> <<"PyCUDA not installed">> [] i = 3 -> <<"Numba CUDA not installed">>
      [] i = 4 -> <<"pynvraw not installed">> [] i = 5 -> <<"pywin32 not installed">>

AbsentFailsAtOnce ==
    \A i \in 2..5 :
      Absent(i) =>
        /\ Len(invoked) = i =>
             /\ calls = <<>>
             /\ i \notin returned
             /\ pc = "func" => step = 1 /\ i \notin raised
             /\ (pc = "outcome" /\ idx = i) => i \in raised /\ exc = NotInstalled(i)
        /\ PastOutcome(i) =>
             LogEvent(FailedMsg(methods[i], NotInstalled(i))) \in Range(emitted)

C12_AbsentDependencyNoCall ==
    /\ []AbsentFailsAtOnce
    /\ [][globals' = globals]_vars

\* C12 witness: pywin32 is absent, reset_winkey has raised without injecting
\* any key
C12_Witness ==
    /\ ~win32api
    /\ pc = "outcome" /\ idx = 5
    /\ exc = <<"pywin32 not installed">>
    /\ calls = <<>>

----------------------------------------------------------------------------
(* C13: reset_cuda_runtime raises "cudaDeviceReset failed on all tried     *)
(* DLLs" iff every candidate failed to load, raised when invoked, or       *)
(* returned a non-zero code; a candidate that loads and returns non-zero   *)
(* does not end the search: the next candidate is still tried, and the     *)
(* failure is raised only after all three candidates were tried.           *)
C13_CudaFailsAfterAllTried ==
    (Len(invoked) = 1 /\ pc = "outcome") =>
      \A loads \in {CudaLoads} :
        LET zero == \E k \in DOMAIN calls : calls[k].res = "0"
        IN  /\ 1 \in raised <=> ~zero
            /\ 1 \in raised <=> exc = <<"cudaDeviceReset failed on all tried DLLs">>
            /\ 1 \in raised =>
                 /\ Len(loads) = Len(dll_names)
                 /\ \A j \in DOMAIN loads : loads[j].arg = <<dll_names[j]>>
            /\ 1 \in returned <=> zero
            /\ \A k \in DOMAIN calls :
                 (calls[k].fn = "cudaDeviceReset" /\ calls[k].res # "0"
                    /\ calls[k].arg # <<dll_names[Len(dll_names)]>>) =>
                   /\ k < Len(calls)
                   /\ calls[k + 1].fn = "CDLL"

\* C13 witness: the first candidate loaded and returned 1, the other two did
\* not load, and only then the function raised
C13_Witness ==
    /\ pc = "outcome" /\ idx = 1
    /\ 1 \in raised
    /\ Len(calls) = 4
    /\ calls[2] = [fn |-> "cudaDeviceReset", arg |-> <<dll_names[1]>>, res |-> "1"]
    /\ calls[3].res = "raised" /\ calls[4].res = "raised"

----------------------------------------------------------------------------
(* C14: when pywin32 is present and no keybd_event call raises,            *)
(* reset_winkey injects exactly four key-down events (LWIN, CONTROL,       *)
(* SHIFT, B, in that order) followed by exactly four key-up events for the *)
(* same keys in the reverse order (B, SHIFT, CONTROL, LWIN), no key-up     *)
(* before any key-down, and the strategy is then reported as succeeded.    *)
KeysDown == <<"VK_LWIN", "VK_CONTROL", "VK_SHIFT", "B">>

KeysUp == <<"B", "VK_SHIFT", "VK_CONTROL", "VK_LWIN">>

HotkeyInjected ==
    /\ Len(calls) = Len(KeysDown) + Len(KeysUp)
    /\ \A k \in DOMAIN calls :
         /\ calls[k].fn = "keybd_event"
         /\ calls[k].res = "ok"
         /\ calls[k].arg = IF k <= Len(KeysDown)
                             THEN <<KeysDown[k], "0">>
                             ELSE <<KeysUp[k - Len(KeysDown)], "KEYEVENTF_KEYUP">>

C14_HotkeyDownThenUpReversed ==
    /\ (Len(invoked) = 5 /\ win32api /\ pc = "outcome") =>
         /\ (\A k \in DOMAIN calls : calls[k].res = "ok") =>
              /\ HotkeyInjected
              /\ 5 \in returned
              /\ exc = <<>>
         /\ 5 \in returned => HotkeyInjected
    /\ (win32api /\ 5 \in returned /\ PastOutcome(5)) =>
         /\ LogEvent(SucceededMsg(methods[5])) \in Range(emitted)
         /\ LogEvent(FailedMsg(methods[5], LibError)) \notin Range(emitted)

\* C14 witness: the eight injections were made, none raised, and the success
\* of "Win+Ctrl+Shift+B" has been emitted
C14_Witness ==
    /\ win32api
    /\ idx = 6 /\ pc = "starting"
    /\ 5 \in returned
    /\ emitted[Len(emitted)] = LogEvent(SucceededMsg(methods[5]))

----------------------------------------------------------------------------
(* C15: every click on the enabled Reset button creates a Run: a step that *)
(* disables the button (only start_reset does) leaves the worker at the    *)
(* beginning of run() with a fresh Run, under every interleaving,          *)
(* including a click that arrives after reset_finished was handled but     *)
(* before the worker's run() has returned; and the button is never left    *)
(* disabled without a Run in progress or a completion signal on its way.   *)
C15_EveryClickCreatesRun ==
    /\ [][(reset_button /\ ~reset_button') =>
            (pc' = "starting" /\ idx' = 1 /\ emitted' = <<>>)]_vars
    /\ [](~reset_button =>
            (pc \notin {"idle", "return"} \/ FinishedEvent \in Range(events)))

----------------------------------------------------------------------------
(* C16: the log view shows exactly the current Run's notifications in      *)
(* emission order.  While the Run's completion has not been displayed, the *)
(* lines shown followed by the lines still queued are the lines the Run    *)
(* has emitted (none from an earlier Run, none lost to the clear); once    *)
(* "Reset process finished." is shown it is the last line, and the lines   *)
(* before it are precisely the Run's notifications, in emission order,     *)
(* ending with "All methods attempted.".                                   *)
LogLines(seq) ==
    LET logs == SelectSeq(seq, LAMBDA ev : ev[1] = "log")
    IN  [k \in DOMAIN logs |-> logs[k][2]]

----------------------------------------------------------------------------
(* C17: reset_winkey never leaves a key held down: when the outcome of     *)
(* "Win+Ctrl+Shift+B" is about to be reported (succeeded or failed), every *)
(* virtual key for which a key-down event was injected has also had a      *)
(* key-up event injected, including when a keybd_event call raises         *)
(* part-way through the sequence.                                          *)
KeysPressed == {calls[k].arg[1] : k \in {j \in DOMAIN calls :
                   calls[j].arg[2] = "0" /\ calls[j].res = "ok"}}

KeysReleased == {calls[k].arg[1] : k \in {j \in DOMAIN calls :
                   calls[j].arg[2] = "KEYEVENTF_KEYUP" /\ calls[j].res = "ok"}}

C17_NoKeyLeftDown ==
    (Len(invoked) = 5 /\ pc = "outcome") => KeysPressed \subseteq KeysReleased

----------------------------------------------------------------------------
(* C18: reset_devcon never leaves the GPU disabled by its own action:      *)
(* whenever the disable step exited with status zero, the enable step is   *)
(* invoked before the outcome of "Devcon" is reported, and at the end of   *)
(* the Run the device is enabled again, for every combination of exit      *)
(* statuses of the two steps.                                              *)
DisableExitedZero ==
    /\ calls # <<>>
    /\ calls[1].arg[2] = "disable"
    /\ calls[1].res = "0"

EnableInvoked == Len(calls) >= 2 /\ calls[2].arg[2] = "enable"

EnableExitedZero == EnableInvoked /\ calls[2].res = "0"

C18_DeviceNotLeftDisabled ==
    (Len(invoked) = Len(methods) /\ DisableExitedZero) =>
      /\ pc \in {"outcome", "summary", "finish", "return", "idle"} => EnableInvoked
      /\ PastFinished => EnableExitedZero

====
